---- MODULE Spec2Model ----
(***************************************************************************)
(* A model of the sshconfig parser (src/parser.go): the token loop of      *)
(* parse, the recursive Include expansion, the wildcard-host merge and the *)
(* default port.  Strings are sequences of one-character strings, so that  *)
(* splitting, integer conversion and pattern matching are computed.        *)
(***************************************************************************)
EXTENDS Integers, Sequences, FiniteSets, TLC

(***************************************************************************)
(* Bounds of the model.                                                    *)
(***************************************************************************)
\* lines generated over all files of one run of the full specification
MaxLines == 4
\* lines of the single file of the wildcard-merge specification
MaxMergeLines == 4
\* nesting depth of Parse calls (the including file counts as one)
MaxDepth == 2
\* lines and characters of a Host line of the Host-line specification
MaxHostLines == 1
MaxHostLen == 4
\* lines generated in one run of the faulty-value specification
MaxValueLines == 3
\* lines of a run of the forward specification, characters of its value
MaxForwardLines == 2
MaxForwardLen == 6
\* lines generated over all files of one run of the include specification
MaxIncludeLines == 4
MaxSkipLines == 4
MaxTextLines == 3
MaxFaultLines == 3
MaxRepeatLines == 3

(***************************************************************************)
(* Strings.                                                                *)
(***************************************************************************)
Digits == <<"0", "1", "2", "3", "4", "5", "6", "7", "8", "9">>

IsDigit(c) == \E i \in 1..Len(Digits) : Digits[i] = c

DigitVal(c) == (CHOOSE i \in 1..Len(Digits) : Digits[i] = c) - 1

\* strings.Contains(s, c) for a one-character c
Contains(s, c) == \E i \in 1..Len(s) : s[i] = c

RECURSIVE Split(_, _)
\* strings.Split(s, sep) for a one-character separator: always at least one
\* element, empty elements kept
Split(s, sep) ==
  IF \A i \in 1..Len(s) : s[i] # sep
  THEN <<s>>
  ELSE LET k == CHOOSE i \in 1..Len(s) :
                   s[i] = sep /\ \A j \in 1..(i - 1) : s[j] # sep
       IN <<SubSeq(s, 1, k - 1)>> \o Split(SubSeq(s, k + 1, Len(s)), sep)

RECURSIVE ReplaceStar(_)
\* strings.Replace(h, "*", ".*", -1)
ReplaceStar(h) ==
  IF h = <<>> THEN <<>>
  ELSE (IF Head(h) = "*" THEN <<".", "*">> ELSE <<Head(h)>>) \o ReplaceStar(Tail(h))

\* the largest int of a 64-bit platform, as decimal text
MaxIntText == <<"9", "2", "2", "3", "3", "7", "2", "0", "3", "6", "8", "5", "4", "7", "7", "5", "8", "0", "7">>

RECURSIVE StripZeros(_)
StripZeros(d) ==
  IF Len(d) > 1 /\ Head(d) = "0" THEN StripZeros(Tail(d)) ELSE d

\* digit text a exceeds digit text b (both without leading zeros)
DigitsGreater(a, b) ==
  \/ Len(a) > Len(b)
  \/ /\ Len(a) = Len(b)
     /\ \E i \in 1..Len(a) :
          /\ DigitVal(a[i]) > DigitVal(b[i])
          /\ \A j \in 1..(i - 1) : a[j] = b[j]

RECURSIVE DigitsValue(_)
DigitsValue(d) ==
  IF d = <<>> THEN 0
  ELSE DigitsValue(SubSeq(d, 1, Len(d) - 1)) * Len(Digits) + DigitVal(d[Len(d)])

\* a conversion that keeps the last digit of a number beyond the range
AtoiTruncating(s) ==
  LET signed == s # <<>> /\ Head(s) \in {"+", "-"}
      d == IF signed THEN Tail(s) ELSE s
      neg == signed /\ Head(s) = "-"
  IN IF d = <<>> \/ \E i \in 1..Len(d) : ~IsDigit(d[i])
     THEN [ok |-> FALSE, val |-> 0, err |-> <<"strconv.Atoi: invalid syntax", s>>]
     ELSE IF DigitsGreater(StripZeros(d), MaxIntText)
     THEN [ok |-> TRUE, val |-> DigitVal(d[Len(d)]), err |-> <<>>]
     ELSE [ok |-> TRUE,
           val |-> IF neg THEN 0 - DigitsValue(d) ELSE DigitsValue(d),
           err |-> <<>>]

\* strconv.Atoi: an optional sign, then one or more decimal digits, within
\* the range of int
Atoi(s) ==
  LET signed == s # <<>> /\ Head(s) \in {"+", "-"}
      d == IF signed THEN Tail(s) ELSE s
      neg == signed /\ Head(s) = "-"
  IN IF d = <<>> \/ \E i \in 1..Len(d) : ~IsDigit(d[i])
     THEN [ok |-> FALSE, val |-> 0, err |-> <<"strconv.Atoi: invalid syntax", s>>]
     ELSE IF DigitsGreater(StripZeros(d), MaxIntText)
     THEN [ok |-> FALSE, val |-> 0, err |-> <<"strconv.Atoi: value out of range", s>>]
     ELSE [ok |-> TRUE,
           val |-> IF neg THEN 0 - DigitsValue(d) ELSE DigitsValue(d),
           err |-> <<>>]

RECURSIVE NatText(_)
NatText(n) ==
  IF n < Len(Digits) THEN <<Digits[n + 1]>>
  ELSE NatText(n \div Len(Digits)) \o <<Digits[(n % Len(Digits)) + 1]>>

\* fmt.Sprintf("%v", n) for an int
IntText(n) == IF n < 0 THEN <<"-">> \o NatText(0 - n) ELSE NatText(n)

(***************************************************************************)
(* Host records.                                                           *)
(***************************************************************************)
DefaultPort == 22

\* &SSHHost{Host: []string{}, Port: 0}
NewSSHHost ==
  [Host |-> <<>>, HostName |-> <<>>, User |-> <<>>, Port |-> 0,
   ProxyCommand |-> <<>>, HostKeyAlgorithms |-> <<>>, IdentityFile |-> <<>>,
   LocalForwards |-> <<>>, RemoteForwards |-> <<>>, DynamicForwards |-> <<>>,
   Ciphers |-> <<>>, MACs |-> <<>>]

\* the fields of the struct, in declaration order, and their kinds
FieldNames ==
  <<"Host", "HostName", "User", "Port", "ProxyCommand", "HostKeyAlgorithms",
    "IdentityFile", "LocalForwards", "RemoteForwards", "DynamicForwards",
    "Ciphers", "MACs">>

StringFields == {"HostName", "User", "ProxyCommand", "HostKeyAlgorithms", "IdentityFile"}

IntFields == {"Port"}

ScalarFields == StringFields \cup IntFields

\* only the first pattern is looked at
containsWildcardFirst(host) ==
  Len(host.Host) > 0 /\ Contains(host.Host[1], "*")

containsWildcard(host) ==
  \E i \in 1..Len(host.Host) : Contains(host.Host[i], "*")

(***************************************************************************)
(* Wildcard matching.  The expression is the pattern with every "*"        *)
(* replaced by ".*"; in it "." stands for any character, "x*" for any      *)
(* number of x, and every other character for itself.                      *)
(***************************************************************************)
AtomMatches(a, c) == a = "." \/ a = c

RECURSIVE MatchHere(_, _, _, _)
\* the expression re, from its i-th character on, matches some substring of
\* s that starts at position j
MatchHere(re, i, s, j) ==
  IF i > Len(re) THEN TRUE
  ELSE IF i + 1 <= Len(re) /\ re[i + 1] = "*"
  THEN \/ MatchHere(re, i + 2, s, j)
       \/ /\ j <= Len(s)
          /\ AtomMatches(re[i], s[j])
          /\ MatchHere(re, i, s, j + 1)
  ELSE /\ j <= Len(s)
       /\ AtomMatches(re[i], s[j])
       /\ MatchHere(re, i + 1, s, j + 1)

\* regexp.MatchString(re, s): the expression matches somewhere in s
MatchString(re, s) == \E j \in 1..(Len(s) + 1) : MatchHere(re, 1, s, j)

matchWildcardHost(wildcardHost, host) ==
  \E i \in 1..Len(wildcardHost.Host) : \E k \in 1..Len(host.Host) :
    MatchString(ReplaceStar(wildcardHost.Host[i]), host.Host[k])

(***************************************************************************)
(* The merge of a wildcard record into a literal record.                   *)
(***************************************************************************)
\* fmt.Sprintf("%v", value) of a string or int field
Sprint(name, value) == IF name \in IntFields THEN IntText(value) ELSE value

\* the field is written whatever it holds
setFieldByNameAlways(host, name, value) ==
  IF name \in StringFields THEN [host EXCEPT ![name] = Sprint(name, value)]
  ELSE IF name \in IntFields THEN [host EXCEPT ![name] = Atoi(Sprint(name, value)).val]
  ELSE host

setFieldByName(host, name, value) ==
  LET strValue == Sprint(name, value)
      currentValue == host[name]
      isUnset == \/ name \in StringFields /\ currentValue = <<>>
                 \/ name \in IntFields /\ currentValue = 0
  IN IF ~isUnset THEN host
     ELSE IF name \in StringFields THEN [host EXCEPT ![name] = strValue]
     ELSE IF name \in IntFields THEN [host EXCEPT ![name] = Atoi(strValue).val]
     ELSE host

RECURSIVE mergeFrom(_, _, _)
\* the loop of mergeSSHConfigs from field i on
mergeFrom(source, target, i) ==
  IF i > Len(FieldNames) THEN target
  ELSE mergeFrom(source,
                 setFieldByName(target, FieldNames[i], source[FieldNames[i]]),
                 i + 1)

mergeSSHConfigs(source, target) == mergeFrom(source, target, 1)

\* the inner loop of applyWildcardRules: the hosts scanned for one wildcard
\* record are those before the first host that does not match
ScannedHosts(wildcardHost, sshConfigs) ==
  {i \in 1..Len(sshConfigs) :
     \A j \in 1..i : matchWildcardHost(wildcardHost, sshConfigs[j])}

applyOneWildcard(wildcardHost, sshConfigs) ==
  [i \in 1..Len(sshConfigs) |->
     IF i \in ScannedHosts(wildcardHost, sshConfigs)
     THEN mergeSSHConfigs(wildcardHost, sshConfigs[i])
     ELSE sshConfigs[i]]

RECURSIVE applyWildcardRules(_, _)
applyWildcardRules(wildcardHosts, sshConfigs) ==
  IF wildcardHosts = <<>> THEN sshConfigs
  ELSE applyWildcardRules(Tail(wildcardHosts),
                          applyOneWildcard(Head(wildcardHosts), sshConfigs))

assertDefaultPort(hosts) ==
  [i \in 1..Len(hosts) |->
     IF hosts[i].Port = 0 THEN [hosts[i] EXCEPT !.Port = DefaultPort] ELSE hosts[i]]

(***************************************************************************)
(* Forward values.  FindStringSubmatch returns the leftmost match of the   *)
(* expression and, among the matches that start there, the one the greedy  *)
(* operators prefer: the optional bind host present and every run as long  *)
(* as possible, the earlier runs first.                                    *)
(***************************************************************************)
IsSpace(c) == c \in {" ", "\t"}

\* the positions after a non-empty run of digits, of white space, of
\* non-space characters that starts at position i
DigitEnds(f, i) ==
  {j \in (i + 1)..(Len(f) + 1) : \A k \in i..(j - 1) : IsDigit(f[k])}

SpaceEnds(f, i) ==
  {j \in (i + 1)..(Len(f) + 1) : \A k \in i..(j - 1) : IsSpace(f[k])}

NonSpaceEnds(f, i) ==
  {j \in (i + 1)..(Len(f) + 1) : \A k \in i..(j - 1) : ~IsSpace(f[k])}

\* the positions of a ":" that ends a non-empty run of non-space characters
\* starting at i
ColonEnds(f, i) == {j \in NonSpaceEnds(f, i) : j <= Len(f) /\ f[j] = ":"}

\* ((\S+):)? from position s, as <<g, p, q>>: with a bind host (g = 1) it is
\* f[s..p-1] and the port starts at q = p + 1; without (g = 0) p = q = s
BindEnds(f, s) == {<<1, p, p + 1>> : p \in ColonEnds(f, s)} \cup {<<0, s, s>>}

\* the matches of ((\S+):)?(\d+) that start at s, as <<g, p, q, r>>: the
\* port is f[q..r-1]
DynamicMatchesAt(f, s) ==
  UNION {{<<b[1], b[2], b[3], r>> : r \in DigitEnds(f, b[3])} : b \in BindEnds(f, s)}

\* the matches of ((\S+):)?(\d+)\s+(\S+):(\d+) that start at s, as
\* <<g, p, q, r, t, u, v>>: the destination host is f[t..u-1], its port
\* f[u+1..v-1]
ForwardMatchesAt(f, s) ==
  UNION {UNION {UNION {{<<m[1], m[2], m[3], m[4], t, u, v>> :
                          v \in DigitEnds(f, u + 1)} :
                       u \in ColonEnds(f, t)} :
                t \in SpaceEnds(f, m[4])} :
         m \in DynamicMatchesAt(f, s)}

LexGreater(a, b) ==
  \E i \in 1..Len(a) : a[i] > b[i] /\ \A j \in 1..(i - 1) : a[j] = b[j]

Preferred(M) == CHOOSE m \in M : \A o \in M \ {m} : LexGreater(m, o)

Leftmost(S) == CHOOSE s \in S : \A o \in S : s <= o

NewForward(f) ==
  LET starts == {s \in 1..Len(f) : ForwardMatchesAt(f, s) # {}}
  IN IF starts = {}
     THEN [ok |-> FALSE, err |-> <<"Invalid forward", f>>]
     ELSE LET s == Leftmost(starts)
              m == Preferred(ForwardMatchesAt(f, s))
              InPort == Atoi(SubSeq(f, m[3], m[4] - 1))
              OutPort == Atoi(SubSeq(f, m[6] + 1, m[7] - 1))
          IN IF ~InPort.ok THEN [ok |-> FALSE, err |-> InPort.err]
             ELSE IF ~OutPort.ok THEN [ok |-> FALSE, err |-> OutPort.err]
             ELSE [ok |-> TRUE,
                   val |-> [InHost |-> IF m[1] = 1 THEN SubSeq(f, s, m[2] - 1) ELSE <<>>,
                            InPort |-> InPort.val,
                            OutHost |-> SubSeq(f, m[5], m[6] - 1),
                            OutPort |-> OutPort.val]]

NewDynamicForward(f) ==
  LET starts == {s \in 1..Len(f) : DynamicMatchesAt(f, s) # {}}
  IN IF starts = {}
     THEN [ok |-> FALSE, err |-> <<"Invalid dynamic forward", f>>]
     ELSE LET s == Leftmost(starts)
              m == Preferred(DynamicMatchesAt(f, s))
              InPort == Atoi(SubSeq(f, m[3], m[4] - 1))
          IN IF ~InPort.ok THEN [ok |-> FALSE, err |-> InPort.err]
             ELSE [ok |-> TRUE,
                   val |-> [Host |-> IF m[1] = 1 THEN SubSeq(f, s, m[2] - 1) ELSE <<>>,
                            Port |-> InPort.val]]

(***************************************************************************)
(* Files.  The text given to parse is a sequence of lines; a line is the   *)
(* keyword that opens it and the text after the keyword.  The files that   *)
(* Include can reach lie in the directory of the top-level file, in a      *)
(* directory below it and in the home directory.                           *)
(***************************************************************************)
TopPath == <<"c">>

DiskFiles ==
  {<<"a">>, <<"b">>, <<"d", "/", "a">>, <<"d", "/", "b">>, <<"/", "h", "/", "b">>}

AllPaths == {TopPath} \cup DiskFiles

\* filepath.Dir
Dir(path) ==
  IF ~Contains(path, "/") THEN <<".">>
  ELSE LET k == CHOOSE i \in 1..Len(path) :
                   path[i] = "/" /\ \A j \in (i + 1)..Len(path) : path[j] # "/"
       IN IF k = 1 THEN <<"/">> ELSE SubSeq(path, 1, k - 1)

\* filepath.Join of a directory and a name without "." or ".." elements
Join(dir, name) ==
  IF dir = <<".">> THEN name
  ELSE IF dir = <<"/">> THEN dir \o name
  ELSE dir \o <<"/">> \o name

HomeDir == <<"/", "h">>

\* a relative path is joined to the directory of the top-level file
parseIncludePathTop(currentPath, includePath) ==
  IF includePath # <<>> /\ Head(includePath) = "~"
  THEN HomeDir \o Tail(includePath)
  ELSE IF ~(includePath # <<>> /\ Head(includePath) = "/")
  THEN Join(Dir(TopPath), includePath)
  ELSE includePath

\* homedir.Expand for a value "~/...", filepath.Join for a relative one
parseIncludePath(currentPath, includePath) ==
  IF includePath # <<>> /\ Head(includePath) = "~"
  THEN HomeDir \o Tail(includePath)
  ELSE IF ~(includePath # <<>> /\ Head(includePath) = "/")
  THEN Join(Dir(currentPath), includePath)
  ELSE includePath

RECURSIVE GlobHere(_, _, _, _)
\* the pattern from its i-th character on matches the name from its j-th
\* character on, to its end; "*" stands for any run of non-separators
GlobHere(pat, i, name, j) ==
  IF i > Len(pat) THEN j > Len(name)
  ELSE IF pat[i] = "*"
  THEN \/ GlobHere(pat, i + 1, name, j)
       \/ /\ j <= Len(name)
          /\ name[j] # "/"
          /\ GlobHere(pat, i, name, j + 1)
  ELSE /\ j <= Len(name)
       /\ pat[i] = name[j]
       /\ GlobHere(pat, i + 1, name, j + 1)

\* the characters of path names, in the order of their codes
CharOrder == <<"*", ".", "/", "a", "b", "c", "d", "h", "n", "~">>

CharRank(c) == CHOOSE k \in 1..Len(CharOrder) : CharOrder[k] = c

\* the order filepath.Glob lists names in: by their text
PathBefore(p, q) ==
  \/ Len(p) < Len(q) /\ \A j \in 1..Len(p) : p[j] = q[j]
  \/ \E i \in 1..Len(p) :
       /\ i <= Len(q)
       /\ \A j \in 1..(i - 1) : p[j] = q[j]
       /\ CharRank(p[i]) < CharRank(q[i])

RECURSIVE SortPaths(_)
SortPaths(S) ==
  IF S = {} THEN <<>>
  ELSE LET m == CHOOSE p \in S : \A q \in S \ {p} : ~PathBefore(q, p)
       IN <<m>> \o SortPaths(S \ {m})

\* a Glob that lists every file when none matches
GlobOrAll(pattern) ==
  IF \E p \in DiskFiles : GlobHere(pattern, 1, p, 1)
  THEN SortPaths({p \in DiskFiles : GlobHere(pattern, 1, p, 1)})
  ELSE SortPaths(DiskFiles)

\* filepath.Glob over the files on disk
Glob(pattern) == SortPaths({p \in DiskFiles : GlobHere(pattern, 1, p, 1)})

(***************************************************************************)
(* The lexer.  A Host line gives an itemHost token and then an             *)
(* itemHostValue token holding the rest of the line with the trailing      *)
(* white space removed; every other keyword line gives the keyword token   *)
(* and then an itemValue token, or an itemError token when the value is    *)
(* not ended by a newline.                                                 *)
(***************************************************************************)
RECURSIVE TrimRight(_)
TrimRight(s) ==
  IF s # <<>> /\ s[Len(s)] = " " THEN TrimRight(SubSeq(s, 1, Len(s) - 1)) ELSE s

\* the keywords as a file spells them
Spelling ==
  [Host |-> <<"H", "o", "s", "t">>,
   HostName |-> <<"H", "o", "s", "t", "N", "a", "m", "e">>,
   User |-> <<"U", "s", "e", "r">>,
   Port |-> <<"P", "o", "r", "t">>]

\* the number of spaces a text starts with
Leading(s) ==
  IF \A k \in 1..Len(s) : s[k] = " " THEN Len(s)
  ELSE (CHOOSE k \in 1..Len(s) : s[k] # " " /\ \A j \in 1..(k - 1) : s[j] = " ") - 1

TrimLeft(s) == SubSeq(s, Leading(s) + 1, Len(s))

\* the length of the word a text starts with
WordLen(s) ==
  IF \A k \in 1..Len(s) : s[k] # " " THEN Len(s)
  ELSE (CHOOSE k \in 1..Len(s) : s[k] = " " /\ \A j \in 1..(k - 1) : s[j] # " ") - 1

\* a line is taken with the carriage return before its newline
ChompNothing(raw) == raw

\* a line without the carriage return that may stand before its newline
Chomp(raw) ==
  IF raw # <<>> /\ raw[Len(raw)] = "\r" THEN SubSeq(raw, 1, Len(raw) - 1) ELSE raw

RECURSIVE LexFrom(_, _)
\* the lines of the text t from its byte offset i on, as the parser gets
\* them: the keyword, the value, whether the value is ended by a newline,
\* and the byte offset of the keyword; kw is "", "#" or "unknown" for a
\* line that gives no token
LexFrom(t, i) ==
  IF i >= Len(t) THEN <<>>
  ELSE LET e == IF \E j \in (i + 1)..Len(t) : t[j] = "\n"
                THEN CHOOSE j \in (i + 1)..Len(t) :
                       t[j] = "\n" /\ \A k \in (i + 1)..(j - 1) : t[k] # "\n"
                ELSE Len(t) + 1
           body == IF e <= Len(t) THEN Chomp(SubSeq(t, i + 1, e - 1))
                   ELSE SubSeq(t, i + 1, e - 1)
           rest == TrimLeft(body)
           word == SubSeq(rest, 1, WordLen(rest))
           kw == IF rest = <<>> THEN ""
                 ELSE IF rest[1] = "#" THEN "#"
                 ELSE IF \E k \in DOMAIN Spelling : Spelling[k] = word
                 THEN CHOOSE k \in DOMAIN Spelling : Spelling[k] = word
                 ELSE "unknown"
           val == IF kw \in {"", "#", "unknown"} THEN <<>>
                  ELSE TrimLeft(SubSeq(rest, WordLen(rest) + 1, Len(rest)))
       IN <<[kw |-> kw, val |-> val, bad |-> kw # "Host" /\ Contains(val, "\r"),
             at |-> i + Leading(body)]>>
          \o LexFrom(t, IF e <= Len(t) THEN e ELSE Len(t))

\* the lines of a text
LexText(t) == LexFrom(t, 0)

lexHostValue(line) == [typ |-> "itemHostValue", val |-> TrimRight(line.val)]

lexValue(line) ==
  IF line.bad
  THEN [typ |-> "itemError", val |-> <<"expected \\n">>]
  ELSE [typ |-> "itemValue", val |-> line.val]

(***************************************************************************)
(* The state.                                                              *)
(***************************************************************************)
VARIABLES
  inputs,   \* the input space of the run: line budget, Host line texts
            \* (none: a name tagged by its line), the keywords whose value
            \* may be faulty, the texts of Port and forward values (none:
            \* the tagged ones), the Include values, the nesting allowed,
            \* the function called, Parse or ParseFS, and the keywords of
            \* the lines in their order (none: any)
  fs,       \* path -> the lines of the file, as far as they are fixed
  closed,   \* the paths whose file is fixed to its end
  nlines,   \* the number of lines fixed so far
  stack,    \* the parse calls in progress, the top-level one first
  reads,    \* the files read for Include so far, in order, each with the
            \* function that read it
  last,     \* the locals of the top-level parse when its loop ended
  ret,      \* what the top-level parse returned
  pc        \* "run" until the top-level parse has returned, then "done"

vars == <<inputs, fs, closed, nlines, stack, reads, last, ret, pc>>

Top == stack[Len(stack)]

\* the locals of parse(input, path) before its loop
NewFrame(path) ==
  [path |-> path, pos |-> 0, mid |-> FALSE, sshConfigs |-> <<>>,
   sshHost |-> <<>>, wildcardHosts |-> <<>>, files |-> <<>>]

NoError == <<>>

\* the character that tags the values of the n-th line
Tag(n) == Digits[(n % (Len(Digits) - 1)) + 2]

\* the texts a line of the keyword may carry when it is the n-th line fixed
Values(kw, n) ==
  CASE kw = "Host" -> IF inputs.hosts = {} THEN {<<"a", Tag(n)>>} ELSE inputs.hosts
    [] kw = "HostName" -> {<<"h", Tag(n)>>}
    [] kw = "User" -> {<<"u", Tag(n)>>}
    [] kw \in {"Port", "LocalForward", "RemoteForward", "DynamicForward"}
         /\ inputs.texts # {} -> inputs.texts
    [] kw = "Port" -> {<<Tag(n)>>, <<"0">>, <<"x">>}
    [] kw = "ProxyCommand" -> {<<"p", Tag(n)>>}
    [] kw = "HostKeyAlgorithms" -> {<<"k", Tag(n)>>}
    [] kw = "IdentityFile" -> {<<"i", Tag(n)>>}
    [] kw = "Ciphers" -> {<<"c", Tag(n), ",", "d">>}
    [] kw = "MACs" -> {<<"m", Tag(n), ",", "e">>}
    [] kw = "LocalForward" -> {<<Tag(n), " ", "h", ":", "8">>, <<Tag(n), " ", "h">>}
    [] kw = "RemoteForward" -> {<<"b", ":", Tag(n), " ", "h", ":", "8">>, <<"h", ":", "8">>}
    [] kw = "DynamicForward" -> {<<Tag(n)>>, <<"x">>}
    [] kw = "Include" -> inputs.includes
    [] kw = "IdentityAgent" -> {<<"g", Tag(n)>>}
    [] kw = "ProxyJump" -> {<<"j", Tag(n), ",", "k">>}
    [] kw = "!" -> {<<"expected \\n">>}
    [] OTHER -> {<<>>}

\* the lines of the keyword that the call on top of the stack may read next
Offer(kw) ==
  LET f == Top
  IN IF f.pos < Len(fs[f.path])
     THEN {ln \in {fs[f.path][f.pos + 1]} : ln.kw = kw}
     ELSE IF /\ f.path \notin closed
             /\ nlines < inputs.limit
             /\ \/ inputs.order = <<>>
                \/ nlines < Len(inputs.order) /\ inputs.order[nlines + 1] = kw
     THEN {[kw |-> kw, val |-> v, bad |-> b, at |-> f.pos] :
             v \in Values(kw, nlines + 1),
             b \in IF kw \in inputs.bad THEN BOOLEAN ELSE {FALSE}}
     ELSE {}

\* the call on top of the stack is at the head of its loop
AtLoop == pc = "run" /\ stack # <<>> /\ Top.files = <<>> /\ ~Top.mid

\* the line is read (and fixed, when it was not yet)
Feed(ln) ==
  LET f == Top
  IN IF f.pos < Len(fs[f.path])
     THEN UNCHANGED <<fs, nlines>>
     ELSE /\ fs' = [fs EXCEPT ![f.path] = Append(@, ln)]
          /\ nlines' = nlines + 1

\* a fault returns the list built so far
ErrorReturnPartial(sshConfigs, e) == [hosts |-> sshConfigs, err |-> e]

\* return nil, err: every enclosing Parse returns the same
ErrorReturn(sshConfigs, e) == [hosts |-> <<>>, err |-> e]

\* a fault is noted and the loop goes on with the next line
FailLater(e) ==
  /\ ret' = ErrorReturn(stack[1].sshConfigs, e)
  /\ stack' = [stack EXCEPT ![Len(stack)].pos = @ + 1]
  /\ UNCHANGED <<pc, last, reads, closed, inputs>>

Fail(e) ==
  /\ ret' = ErrorReturn(stack[1].sshConfigs, e)
  /\ pc' = "done"
  /\ stack' = <<>>
  /\ UNCHANGED <<last, reads, closed, inputs>>

\* the loop goes on with the locals f
Continue(f) ==
  /\ stack' = [stack EXCEPT ![Len(stack)] = f]
  /\ UNCHANGED <<ret, pc, last, reads, closed, inputs>>

\* the check at the head of the loop without its Include branch
PreCheckNoInclude(f, typ, pos) ==
  IF f.sshHost = <<>> /\ typ \notin {"itemEOF", "itemHost", "itemInclude"}
  THEN <<"config variable before Host variable", f.path, pos>>
  ELSE NoError

\* the check at the head of the loop, its message naming the top-level file
PreCheckTopPath(f, typ, pos) ==
  IF f.sshHost = <<>>
  THEN IF typ \notin {"itemEOF", "itemHost", "itemInclude"}
       THEN <<"config variable before Host variable", TopPath, pos>>
       ELSE NoError
  ELSE IF typ = "itemInclude"
       THEN <<"include not allowed in Host block">>
       ELSE NoError

\* the check at the head of the loop
PreCheck(f, typ, pos) ==
  IF f.sshHost = <<>>
  THEN IF typ \notin {"itemEOF", "itemHost", "itemInclude"}
       THEN <<"config variable before Host variable", f.path, pos>>
       ELSE NoError
  ELSE IF typ = "itemInclude"
       THEN <<"include not allowed in Host block">>
       ELSE NoError

\* the open record is put in front of the result list
FinalizeInFront(f) ==
  IF f.sshHost = <<>> THEN f
  ELSE IF containsWildcard(f.sshHost[1])
  THEN [f EXCEPT !.wildcardHosts = Append(@, f.sshHost[1])]
  ELSE [f EXCEPT !.sshConfigs = <<f.sshHost[1]>> \o @]

\* the open record goes to the wildcard records or to the result list
Finalize(f) ==
  IF f.sshHost = <<>> THEN f
  ELSE IF containsWildcard(f.sshHost[1])
  THEN [f EXCEPT !.wildcardHosts = Append(@, f.sshHost[1])]
  ELSE [f EXCEPT !.sshConfigs = Append(@, f.sshHost[1])]

(***************************************************************************)
(* The loop of parse, one action for each case of its switch.              *)
(***************************************************************************)
\* case itemHost
ParseHost ==
  /\ AtLoop
  /\ \E ln \in Offer("Host") :
       /\ Feed(ln)
       /\ Continue([Finalize(Top) EXCEPT !.sshHost = <<NewSSHHost>>, !.mid = TRUE])

\* case itemHostValue
ParseHostValue ==
  /\ pc = "run" /\ stack # <<>> /\ Top.mid
  /\ LET f == Top
         token == lexHostValue(fs[f.path][f.pos + 1])
     IN Continue([f EXCEPT !.sshHost = <<[@[1] EXCEPT !.Host = Split(token.val, " ")]>>,
                           !.mid = FALSE,
                           !.pos = @ + 1])
  /\ UNCHANGED <<fs, nlines>>

\* a case that stores the value only when the field holds none yet
ParseStringOnce(kw, typ, field) ==
  /\ AtLoop
  /\ \E ln \in Offer(kw) :
       LET f == Top
           pre == PreCheck(f, typ, ln.at)
           next == lexValue(ln)
       IN /\ Feed(ln)
          /\ IF pre # NoError THEN Fail(pre)
             ELSE IF next.typ # "itemValue" THEN Fail(next.val)
             ELSE Continue([f EXCEPT !.sshHost =
                                        <<[@[1] EXCEPT ![field] =
                                             IF @ = <<>> THEN next.val ELSE @]>>,
                                     !.pos = @ + 1])

\* the cases of the keywords whose value is stored as it is
ParseString(kw, typ, field) ==
  /\ AtLoop
  /\ \E ln \in Offer(kw) :
       LET f == Top
           pre == PreCheck(f, typ, ln.at)
           next == lexValue(ln)
       IN /\ Feed(ln)
          /\ IF pre # NoError THEN Fail(pre)
             ELSE IF next.typ # "itemValue" THEN Fail(next.val)
             ELSE Continue([f EXCEPT !.sshHost = <<[@[1] EXCEPT ![field] = next.val]>>,
                                     !.pos = @ + 1])

ParseHostName == ParseString("HostName", "itemHostName", "HostName")

ParseUser == ParseString("User", "itemUser", "User")

ParseProxyCommand == ParseString("ProxyCommand", "itemProxyCommand", "ProxyCommand")

ParseHostKeyAlgorithms ==
  ParseString("HostKeyAlgorithms", "itemHostKeyAlgorithms", "HostKeyAlgorithms")

ParseIdentityFile == ParseString("IdentityFile", "itemIdentityFile", "IdentityFile")

\* case itemPort
ParsePort ==
  /\ AtLoop
  /\ \E ln \in Offer("Port") :
       LET f == Top
           pre == PreCheck(f, "itemPort", ln.at)
           next == lexValue(ln)
           port == Atoi(next.val)
       IN /\ Feed(ln)
          /\ IF pre # NoError THEN Fail(pre)
             ELSE IF next.typ # "itemValue" THEN Fail(next.val)
             ELSE IF ~port.ok THEN Fail(port.err)
             ELSE Continue([f EXCEPT !.sshHost = <<[@[1] EXCEPT !.Port = port.val]>>,
                                     !.pos = @ + 1])

\* the cases of the keywords whose value is a comma-separated list
ParseList(kw, typ, field) ==
  /\ AtLoop
  /\ \E ln \in Offer(kw) :
       LET f == Top
           pre == PreCheck(f, typ, ln.at)
           next == lexValue(ln)
       IN /\ Feed(ln)
          /\ IF pre # NoError THEN Fail(pre)
             ELSE IF next.typ # "itemValue" THEN Fail(next.val)
             ELSE Continue([f EXCEPT !.sshHost =
                                        <<[@[1] EXCEPT ![field] = Split(next.val, ",")]>>,
                                     !.pos = @ + 1])

ParseCiphers == ParseList("Ciphers", "itemCiphers", "Ciphers")

ParseMACs == ParseList("MACs", "itemMACs", "MACs")

\* a forward case that puts the new forward in front of the list
ParseForwardInFront(kw, typ, field) ==
  /\ AtLoop
  /\ \E ln \in Offer(kw) :
       LET f == Top
           pre == PreCheck(f, typ, ln.at)
           next == lexValue(ln)
           fwd == NewForward(next.val)
       IN /\ Feed(ln)
          /\ IF pre # NoError THEN Fail(pre)
             ELSE IF ~fwd.ok THEN Fail(fwd.err)
             ELSE Continue([f EXCEPT !.sshHost =
                                        <<[@[1] EXCEPT ![field] = <<fwd.val>> \o @]>>,
                                     !.pos = @ + 1])

\* case itemLocalForward, case itemRemoteForward
ParseForward(kw, typ, field) ==
  /\ AtLoop
  /\ \E ln \in Offer(kw) :
       LET f == Top
           pre == PreCheck(f, typ, ln.at)
           next == lexValue(ln)
           fwd == NewForward(next.val)
       IN /\ Feed(ln)
          /\ IF pre # NoError THEN Fail(pre)
             ELSE IF ~fwd.ok THEN Fail(fwd.err)
             ELSE Continue([f EXCEPT !.sshHost =
                                        <<[@[1] EXCEPT ![field] = Append(@, fwd.val)]>>,
                                     !.pos = @ + 1])

ParseLocalForward == ParseForward("LocalForward", "itemLocalForward", "LocalForwards")

ParseRemoteForward == ParseForward("RemoteForward", "itemRemoteForward", "RemoteForwards")

\* case itemDynamicForward
ParseDynamicForward ==
  /\ AtLoop
  /\ \E ln \in Offer("DynamicForward") :
       LET f == Top
           pre == PreCheck(f, "itemDynamicForward", ln.at)
           next == lexValue(ln)
           fwd == NewDynamicForward(next.val)
       IN /\ Feed(ln)
          /\ IF pre # NoError THEN Fail(pre)
             ELSE IF ~fwd.ok THEN Fail(fwd.err)
             ELSE Continue([f EXCEPT !.sshHost =
                                        <<[@[1] EXCEPT !.DynamicForwards = Append(@, fwd.val)]>>,
                                     !.pos = @ + 1])

\* case itemInclude, up to the loop over the files found
ParseInclude ==
  /\ AtLoop
  /\ Len(stack) < inputs.depth
  /\ \E ln \in Offer("Include") :
       LET f == Top
           pre == PreCheck(f, "itemInclude", ln.at)
           next == lexValue(ln)
           includePath == parseIncludePath(f.path, next.val)
           files == Glob(includePath)
       IN /\ Feed(ln)
          /\ IF pre # NoError THEN Fail(pre)
             ELSE IF next.typ # "itemValue" THEN Fail(next.val)
             ELSE IF Len(files) = 0
             THEN Fail(<<"no files found for include path", includePath>>)
             ELSE Continue([f EXCEPT !.files = files, !.pos = @ + 1])

\* Parse(f) for the next file found: the file is read and parse begins
CallParse ==
  /\ pc = "run" /\ stack # <<>> /\ Top.files # <<>>
  /\ stack' = Append(stack, NewFrame(Head(Top.files)))
  /\ reads' = Append(reads, [path |-> Head(Top.files), by |-> "ioutil.ReadFile"])
  /\ UNCHANGED <<inputs, fs, closed, nlines, last, ret, pc>>

\* a keyword token that no case of the switch names, and its value token:
\* both pass the check at the head of the loop and change nothing
ParseUnhandled(kw, typ) ==
  /\ AtLoop
  /\ \E ln \in Offer(kw) :
       LET f == Top
           pre == PreCheck(f, typ, ln.at)
       IN /\ Feed(ln)
          /\ IF pre # NoError THEN Fail(pre)
             ELSE Continue([f EXCEPT !.pos = @ + 1])

ParseIdentityAgent == ParseUnhandled("IdentityAgent", "itemIdentityAgent")

ParseProxyJump == ParseUnhandled("ProxyJump", "itemProxyJump")

\* a blank line, a comment line or a line of a directive that is not known
\* passes as if it held a token that no case names
SkipLineAsToken(kw) == ParseUnhandled(kw, "itemValue")

\* the lexer passes over a blank line, a comment line and a line of a
\* directive it does not know: no token comes of it
SkipLine(kw) ==
  /\ AtLoop
  /\ \E ln \in Offer(kw) :
       /\ Feed(ln)
       /\ Continue([Top EXCEPT !.pos = @ + 1])

SkipBlank == SkipLine("")

SkipComment == SkipLine("#")

SkipUnknown == SkipLine("unknown")

\* case itemError: the lexer reports a fault where a keyword is expected
ParseError ==
  /\ AtLoop
  /\ \E ln \in Offer("!") :
       LET f == Top
           pre == PreCheck(f, "itemError", ln.at)
       IN /\ Feed(ln)
          /\ IF pre # NoError THEN Fail(pre)
             ELSE Fail(ln.val \o <<"at pos", ln.at>>)

\* the list parse returns: the wildcard records applied, then the default port
Finish(f) ==
  assertDefaultPort(IF Len(f.wildcardHosts) > 0
                    THEN applyWildcardRules(f.wildcardHosts, f.sshConfigs)
                    ELSE f.sshConfigs)

\* the records of an included file are put in front of the list
PrependIncluded(sshConfigs, includeSshConfigs) == includeSshConfigs \o sshConfigs

\* sshConfigs = append(sshConfigs, includeSshConfigs...)
AppendIncluded(sshConfigs, includeSshConfigs) == sshConfigs \o includeSshConfigs

\* case itemEOF and the end of parse; in an included file the caller appends
\* the list and goes on with the next file found
ParseEOF ==
  /\ AtLoop
  /\ Top.pos = Len(fs[Top.path])
  /\ LET f == Finalize(Top)
         n == Len(stack)
     IN /\ closed' = closed \cup {f.path}
        /\ IF n = 1
           THEN /\ ret' = [hosts |-> Finish(f), err |-> NoError]
                /\ pc' = "done"
                /\ stack' = <<>>
                /\ last' = [sshConfigs |-> f.sshConfigs, wildcardHosts |-> f.wildcardHosts]
           ELSE /\ stack' = [SubSeq(stack, 1, n - 1) EXCEPT
                               ![n - 1].sshConfigs = AppendIncluded(@, Finish(f)),
                               ![n - 1].files = Tail(@)]
                /\ UNCHANGED <<ret, pc, last>>
  /\ UNCHANGED <<inputs, fs, nlines, reads>>

(***************************************************************************)
(* Specifications.                                                         *)
(***************************************************************************)
\* the Include values of the runs with every keyword: a file, every file of
\* the directory, no file
IncludeTexts == {<<"a">>, <<"*">>, <<"n">>}

\* the rest of the input space of a run that calls Parse
Rest ==
  [includes |-> IncludeTexts, depth |-> MaxDepth, entry |-> "Parse", order |-> <<>>,
   text |-> <<>>, newline |-> <<"\n">>]

\* the Host lines of the runs with every keyword
HostTexts == {<<"a">>, <<"a", "*">>, <<"b", " ", "*">>}

\* the Host lines of the runs that exercise the merge
MergeHostTexts == {<<"b">>, <<"a", "b">>, <<"b", "a">>, <<"a", "*">>, <<"*">>}

InitWith(in) ==
  /\ inputs = in @@ Rest
  /\ fs = [p \in AllPaths |-> <<>>]
  /\ closed = {}
  /\ nlines = 0
  /\ stack = <<NewFrame(TopPath)>>
  /\ reads = <<>>
  /\ last = [sshConfigs |-> <<>>, wildcardHosts |-> <<>>]
  /\ ret = [hosts |-> <<>>, err |-> NoError]
  /\ pc = "run"

Init == InitWith([limit |-> MaxLines, hosts |-> HostTexts, bad |-> {"User"}, texts |-> {}])

Next ==
  \/ ParseHost
  \/ ParseHostValue
  \/ ParseHostName
  \/ ParseUser
  \/ ParsePort
  \/ ParseProxyCommand
  \/ ParseHostKeyAlgorithms
  \/ ParseIdentityFile
  \/ ParseLocalForward
  \/ ParseRemoteForward
  \/ ParseDynamicForward
  \/ ParseInclude
  \/ CallParse
  \/ ParseCiphers
  \/ ParseMACs
  \/ ParseError
  \/ ParseEOF

Spec == Init /\ [][Next]_vars

\* one file without Include: Host, HostName, User and Port lines
InitMerge ==
  InitWith([limit |-> MaxMergeLines, hosts |-> MergeHostTexts, bad |-> {}, texts |-> {}])

NextMerge ==
  \/ ParseHost
  \/ ParseHostValue
  \/ ParseHostName
  \/ ParseUser
  \/ ParsePort
  \/ ParseEOF

SpecMerge == InitMerge /\ [][NextMerge]_vars

\* Host lines only, of every text of names, "*" and spaces that begins with
\* a name
HostLineTexts ==
  {t \in UNION {[1..n -> {"a", "*", " "}] : n \in 1..MaxHostLen} : t[1] # " "}

InitHost ==
  InitWith([limit |-> MaxHostLines, hosts |-> HostLineTexts, bad |-> {}, texts |-> {}])

NextHost ==
  \/ ParseHost
  \/ ParseHostValue
  \/ ParseEOF

SpecHost == InitHost /\ [][NextHost]_vars

\* every keyword, the value of every keyword but Host faulty or not
ValueKeywords ==
  {"HostName", "User", "Port", "ProxyCommand", "HostKeyAlgorithms", "IdentityFile",
   "LocalForward", "RemoteForward", "DynamicForward", "Include", "Ciphers", "MACs"}

InitValue ==
  InitWith([limit |-> MaxValueLines, hosts |-> {<<"a">>}, bad |-> ValueKeywords,
            texts |-> {}])

SpecValue == InitValue /\ [][Next]_vars

\* the values of the forward specification: every text of digits, letters,
\* colons and spaces without a space at either end, and texts with a number
\* beyond the range of int
BigText == SubSeq(MaxIntText, 1, Len(MaxIntText) - 1) \o <<"8">>

NumberTexts ==
  {BigText,
   BigText \o <<" ", "h", ":", "1">>,
   <<"1", " ", "h", ":">> \o BigText,
   <<"h", ":">> \o BigText}

ForwardTexts ==
  {t \in UNION {[1..n -> {"1", "h", ":", " "}] : n \in 1..MaxForwardLen} :
     t[1] # " " /\ t[Len(t)] # " "}
  \cup NumberTexts

\* one block whose Port and forward lines all carry the text of the run
InitForward ==
  \E t \in ForwardTexts :
    InitWith([limit |-> MaxForwardLines, hosts |-> {<<"a">>}, bad |-> {},
              texts |-> {t}])

NextForward ==
  \/ ParseHost
  \/ ParseHostValue
  \/ ParsePort
  \/ ParseLocalForward
  \/ ParseRemoteForward
  \/ ParseDynamicForward
  \/ ParseEOF

SpecForward == InitForward /\ [][NextForward]_vars

\* Include values that are relative (to a file, to a file below, to every
\* file of the directory, to no file), below the home directory, absolute
IncludePathTexts ==
  {<<"b">>, <<"d", "/", "a">>, <<"*">>, <<"n">>, <<"~", "/", "b">>,
   <<"/", "h", "/", "b">>}

\* Host and Include lines only, an included file may include in its turn
InitInclude ==
  \E e \in {"Parse", "ParseFS"} :
    InitWith([limit |-> MaxIncludeLines, hosts |-> {}, bad |-> {}, texts |-> {},
              includes |-> IncludePathTexts, depth |-> MaxDepth + 1, entry |-> e])

NextInclude ==
  \/ ParseHost
  \/ ParseHostValue
  \/ ParseInclude
  \/ CallParse
  \/ ParseEOF

SpecInclude == InitInclude /\ [][NextInclude]_vars

\* a call that can take a step takes it
SpecIncludeFair == SpecInclude /\ WF_vars(NextInclude)

\* the directives the specification names, each once in one block
RoundKeywords ==
  <<"HostName", "User", "Port", "ProxyCommand", "HostKeyAlgorithms", "IdentityFile",
    "IdentityAgent", "ProxyJump", "Ciphers", "MACs">>

\* the sequence from its (r + 1)-th element on, then its first r elements
Rotate(q, r) == SubSeq(q, r + 1, Len(q)) \o SubSeq(q, 1, r)

InitRound ==
  \E r \in 0..(Len(RoundKeywords) - 1) :
    InitWith([limit |-> Len(RoundKeywords) + 1, hosts |-> {<<"a">>}, bad |-> {},
              texts |-> {<<"2", "2", "2", "2">>},
              order |-> <<"Host">> \o Rotate(RoundKeywords, r)])

NextRound ==
  \/ ParseHost
  \/ ParseHostValue
  \/ ParseHostName
  \/ ParseUser
  \/ ParsePort
  \/ ParseProxyCommand
  \/ ParseHostKeyAlgorithms
  \/ ParseIdentityFile
  \/ ParseIdentityAgent
  \/ ParseProxyJump
  \/ ParseCiphers
  \/ ParseMACs
  \/ ParseEOF

SpecRound == InitRound /\ [][NextRound]_vars

\* Host, HostName and Port lines, lexer faults, and the lines the lexer
\* passes over
InitSkip ==
  InitWith([limit |-> MaxSkipLines, hosts |-> {<<"a">>, <<"a", "*">>}, bad |-> {},
            texts |-> {}])

NextSkip ==
  \/ ParseHost
  \/ ParseHostValue
  \/ ParseHostName
  \/ ParsePort
  \/ SkipBlank
  \/ SkipComment
  \/ SkipUnknown
  \/ ParseError
  \/ ParseEOF

SpecSkip == InitSkip /\ [][NextSkip]_vars

\* the lines of the texts that are given as characters
LineTexts ==
  {<<"H", "o", "s", "t", " ", "a">>,
   <<"H", "o", "s", "t", "N", "a", "m", "e", " ", "h">>,
   <<"P", "o", "r", "t", " ", "2", "2">>,
   <<"U", "s", "e", "r", " ", "u", "\r", "P", "o", "r", "t", " ", "2">>,
   <<"#", " ", "c">>,
   <<>>,
   <<" ", "X", " ", "y">>}

RECURSIVE Styled(_, _)
\* the text of the lines, every line ended by the newline nl
Styled(ls, nl) == IF ls = <<>> THEN <<>> ELSE Head(ls) \o nl \o Styled(Tail(ls), nl)

LF == <<"\n">>

CRLF == <<"\r", "\n">>

\* the top-level file is a text of characters, its lines ended by LF or by
\* CRLF
InitText ==
  \E n \in 1..MaxTextLines : \E ls \in [1..n -> LineTexts] : \E nl \in {LF, CRLF} :
    /\ inputs = [limit |-> 0, hosts |-> {}, bad |-> {}, texts |-> {},
                 text |-> ls, newline |-> nl] @@ Rest
    /\ fs = [p \in AllPaths |-> IF p = TopPath THEN LexText(Styled(ls, nl)) ELSE <<>>]
    /\ closed = {TopPath}
    /\ nlines = 0
    /\ stack = <<NewFrame(TopPath)>>
    /\ reads = <<>>
    /\ last = [sshConfigs |-> <<>>, wildcardHosts |-> <<>>]
    /\ ret = [hosts |-> <<>>, err |-> NoError]
    /\ pc = "run"

NextText ==
  \/ ParseHost
  \/ ParseHostValue
  \/ ParseHostName
  \/ ParseUser
  \/ ParsePort
  \/ SkipBlank
  \/ SkipComment
  \/ SkipUnknown
  \/ ParseEOF

SpecText == InitText /\ [][NextText]_vars

\* Host, Port and Include lines
InitIncludePort ==
  InitWith([limit |-> MaxLines, hosts |-> HostTexts, bad |-> {}, texts |-> {}])

NextIncludePort ==
  \/ ParseHost
  \/ ParseHostValue
  \/ ParsePort
  \/ ParseInclude
  \/ CallParse
  \/ ParseEOF

SpecIncludePort == InitIncludePort /\ [][NextIncludePort]_vars

\* the lines of the top-level files with faults: their keyword and value
FaultLines ==
  {[kw |-> "Include", val |-> <<"*">>], [kw |-> "Include", val |-> <<"n">>],
   [kw |-> "Host", val |-> <<"a">>], [kw |-> "Port", val |-> <<"x">>],
   [kw |-> "User", val |-> <<"u">>],
   [kw |-> "LocalForward", val |-> <<"1", " ", "h">>],
   [kw |-> "!", val |-> <<"expected \\n">>]}

\* a text of such lines, every line at its place
TextOf(ls) ==
  [i \in 1..Len(ls) |-> [kw |-> ls[i].kw, val |-> ls[i].val, bad |-> FALSE, at |-> i - 1]]

\* the included files a and b of these runs: without a fault or with one
FaultyFiles(p) ==
  IF p = <<"a">>
  THEN {<<[kw |-> "Host", val |-> <<"a">>]>>, <<[kw |-> "User", val |-> <<"u">>]>>,
        <<[kw |-> "Host", val |-> <<"a">>], [kw |-> "Port", val |-> <<"x">>]>>}
  ELSE IF p = <<"b">>
  THEN {<<[kw |-> "Host", val |-> <<"b">>]>>, <<[kw |-> "Port", val |-> <<"7">>]>>}
  ELSE {<<>>}

\* every file is given whole, with any number of faults
InitFaults ==
  \E n \in 1..MaxFaultLines : \E ls \in [1..n -> FaultLines] :
    \E a \in FaultyFiles(<<"a">>) : \E b \in FaultyFiles(<<"b">>) :
      /\ inputs = [limit |-> 0, hosts |-> {}, bad |-> {}, texts |-> {}] @@ Rest
      /\ fs = [p \in AllPaths |->
                 IF p = TopPath THEN TextOf(ls)
                 ELSE IF p = <<"a">> THEN TextOf(a)
                 ELSE IF p = <<"b">> THEN TextOf(b)
                 ELSE <<>>]
      /\ closed = AllPaths
      /\ nlines = 0
      /\ stack = <<NewFrame(TopPath)>>
      /\ reads = <<>>
      /\ last = [sshConfigs |-> <<>>, wildcardHosts |-> <<>>]
      /\ ret = [hosts |-> <<>>, err |-> NoError]
      /\ pc = "run"

NextFaults ==
  \/ ParseHost
  \/ ParseHostValue
  \/ ParseUser
  \/ ParsePort
  \/ ParseLocalForward
  \/ ParseInclude
  \/ CallParse
  \/ ParseError
  \/ ParseEOF

SpecFaults == InitFaults /\ [][NextFaults]_vars

\* Host lines and the lines of the scalar and comma-list directives
InitRepeat ==
  InitWith([limit |-> MaxRepeatLines, hosts |-> {<<"a">>, <<"a", "*">>}, bad |-> {},
            texts |-> {}])

NextRepeat ==
  \/ ParseHost
  \/ ParseHostValue
  \/ ParseHostName
  \/ ParseUser
  \/ ParsePort
  \/ ParseProxyCommand
  \/ ParseHostKeyAlgorithms
  \/ ParseIdentityFile
  \/ ParseCiphers
  \/ ParseMACs
  \/ ParseEOF

SpecRepeat == InitRepeat /\ [][NextRepeat]_vars

\* Host lines and forward lines only
InitList == InitWith([limit |-> MaxLines, hosts |-> HostTexts, bad |-> {}, texts |-> {}])

NextList ==
  \/ ParseHost
  \/ ParseHostValue
  \/ ParseLocalForward
  \/ ParseRemoteForward
  \/ ParseDynamicForward
  \/ ParseEOF

SpecList == InitList /\ [][NextList]_vars

(***************************************************************************)
(* The outcome of the top-level parse, and the text of a file read         *)
(* independently of the parser.                                            *)
(***************************************************************************)
Done == pc = "done"

Succeeded == Done /\ ret.err = NoError

Failed == Done /\ ret.err # NoError

IncludeError == <<"include not allowed in Host block">>

TopText == fs[TopPath]

\* the positions of the Host lines of a text
HostPositions(lines) == {i \in 1..Len(lines) : lines[i].kw = "Host"}

\* the Host lines of a text in order, those with a "*" left out
LiteralHostLines(lines) ==
  SelectSeq(lines, LAMBDA ln : ln.kw = "Host" /\ ~Contains(ln.val, "*"))

\* the Host lines with a "*"
WildcardHostLines(lines) ==
  SelectSeq(lines, LAMBDA ln : ln.kw = "Host" /\ Contains(ln.val, "*"))

\* the positions of the Host lines without a "*" (Literal) and with one
\* (Wildcard), in order
LiteralPositions(lines) ==
  SelectSeq([i \in 1..Len(lines) |-> i],
            LAMBDA i : lines[i].kw = "Host" /\ ~Contains(lines[i].val, "*"))

WildcardPositions(lines) ==
  SelectSeq([i \in 1..Len(lines) |-> i],
            LAMBDA i : lines[i].kw = "Host" /\ Contains(lines[i].val, "*"))

\* the lines of keyword kw in the block that the Host line at i opens
OwnLines(lines, i, kw) ==
  {j \in (i + 1)..Len(lines) :
     /\ lines[j].kw = kw
     /\ \A k \in (i + 1)..j : lines[k].kw # "Host"}

\* the value the block at i gives the scalar field itself: that of its last
\* line for the field, a Port as a number
OwnValue(lines, i, field) ==
  LET j == CHOOSE x \in OwnLines(lines, i, field) :
                \A y \in OwnLines(lines, i, field) : y <= x
  IN IF field \in IntFields THEN Atoi(lines[j].val).val ELSE lines[j].val

Unset(field) == IF field \in IntFields THEN 0 ELSE <<>>

\* the block at i sets the field to a value other than the unset one
SetsField(lines, i, field) ==
  OwnLines(lines, i, field) # {} /\ OwnValue(lines, i, field) # Unset(field)

RECURSIVE Words(_)
\* the names on a Host line: the maximal runs of non-space characters
Words(t) ==
  IF t = <<>> THEN <<>>
  ELSE IF Head(t) = " " THEN Words(Tail(t))
  ELSE LET n == CHOOSE j \in 1..Len(t) :
                  /\ \A k \in 1..j : t[k] # " "
                  /\ j = Len(t) \/ t[j + 1] = " "
       IN <<SubSeq(t, 1, n)>> \o Words(SubSeq(t, n + 1, Len(t)))

RECURSIVE StarHere(_, _, _, _)
\* the pattern from its i-th character on matches all of s from its j-th
\* character on: "*" stands for any run, every other character for itself
StarHere(pat, i, s, j) ==
  IF i > Len(pat) THEN j > Len(s)
  ELSE IF pat[i] = "*"
  THEN StarHere(pat, i + 1, s, j) \/ (j <= Len(s) /\ StarHere(pat, i, s, j + 1))
  ELSE j <= Len(s) /\ pat[i] = s[j] /\ StarHere(pat, i + 1, s, j + 1)

\* some pattern of the list ws matches some name of the list hs as a whole
StarMatches(ws, hs) ==
  \E i \in 1..Len(ws) : \E k \in 1..Len(hs) : StarHere(ws[i], 1, hs[k], 1)

\* the wildcard blocks, in order, that match the literal block at i and set
\* the field
FillingWildcards(lines, i, field) ==
  SelectSeq(WildcardPositions(lines),
            LAMBDA w : /\ SetsField(lines, w, field)
                       /\ StarMatches(Words(lines[w].val), Words(lines[i].val)))

\* this step reads an Include line in a file whose host record is open
IncludeInHostBlock ==
  /\ AtLoop
  /\ Top.sshHost # <<>>
  /\ Top.pos = Len(fs[Top.path])
  /\ Len(fs'[Top.path]) = Len(fs[Top.path]) + 1
  /\ fs'[Top.path][Len(fs'[Top.path])].kw = "Include"

(***************************************************************************)
(* C1: whenever the parse returns an error, the returned host list is      *)
(* empty, also when host blocks or included files were parsed before the   *)
(* fault.                                                                  *)
(***************************************************************************)
C1_NoPartialList == Failed => ret.hosts = <<>>

\* C1, witness: a fault after an included file gave a record and a block of
\* the top-level file was opened
C1_Witness ==
  /\ Failed
  /\ reads # <<>>
  /\ \E p \in closed : LiteralHostLines(fs[p]) # <<>>
  /\ HostPositions(TopText) # {}

(***************************************************************************)
(* C2 as stated: for every literal record and every scalar field its block *)
(* has a line for, the returned value is the block's own value, whatever   *)
(* wildcard records match it.                                              *)
(***************************************************************************)
C2_OwnValueKept ==
  Succeeded =>
    \A k \in 1..Len(LiteralPositions(TopText)) : \A field \in ScalarFields :
      LET i == LiteralPositions(TopText)[k]
      IN OwnLines(TopText, i, field) # {} =>
           ret.hosts[k][field] = OwnValue(TopText, i, field)

(***************************************************************************)
(* C2 amended: for every literal record and every scalar field its block   *)
(* sets to a non-empty string or to a port other than 0, the returned      *)
(* value is the block's own value, whatever wildcard records match it.     *)
(***************************************************************************)
C2_SetValueKept ==
  Succeeded =>
    \A k \in 1..Len(LiteralPositions(TopText)) : \A field \in ScalarFields :
      LET i == LiteralPositions(TopText)[k]
      IN SetsField(TopText, i, field) =>
           ret.hosts[k][field] = OwnValue(TopText, i, field)

\* C2, witness: a literal block sets a field that a matching wildcard
\* block, declared before it, sets to another value
C2_Witness ==
  /\ Succeeded
  /\ \E field \in ScalarFields :
       \E k \in 1..Len(LiteralPositions(TopText)) :
         \E n \in 1..Len(WildcardPositions(TopText)) :
           LET i == LiteralPositions(TopText)[k]
               w == WildcardPositions(TopText)[n]
           IN /\ w < i
              /\ SetsField(TopText, i, field)
              /\ SetsField(TopText, w, field)
              /\ StarMatches(Words(TopText[w].val), Words(TopText[i].val))
              /\ OwnValue(TopText, w, field) # OwnValue(TopText, i, field)

(***************************************************************************)
(* C3: a scalar field that a literal record left unset holds the value of  *)
(* the first wildcard record, in declaration order, that matches the       *)
(* record and has the field set.                                           *)
(***************************************************************************)
C3_FirstMatchingWildcardFills ==
  Succeeded =>
    \A k \in 1..Len(LiteralPositions(TopText)) : \A field \in ScalarFields :
      LET i == LiteralPositions(TopText)[k]
          ws == FillingWildcards(TopText, i, field)
      IN (~SetsField(TopText, i, field) /\ ws # <<>>) =>
           ret.hosts[k][field] = OwnValue(TopText, ws[1], field)

(***************************************************************************)
(* C4: a wildcard record matches a literal record exactly when one of its  *)
(* patterns matches one of the record's names as a whole, "*" standing for *)
(* any run of characters and every other character for itself.             *)
(***************************************************************************)
C4_MatchIsWholeString ==
  Succeeded =>
    \A n \in 1..Len(last.wildcardHosts) : \A k \in 1..Len(last.sshConfigs) :
      matchWildcardHost(last.wildcardHosts[n], last.sshConfigs[k])
        <=> StarMatches(last.wildcardHosts[n].Host, last.sshConfigs[k].Host)

(***************************************************************************)
(* C5: a wildcard record is merged into every literal record it matches,   *)
(* also into one that follows a literal record it does not match: a string *)
(* field that the wildcard record has set is not left empty there.         *)
(***************************************************************************)
C5_EveryMatchingRecordMerged ==
  Succeeded =>
    \A n \in 1..Len(last.wildcardHosts) : \A k \in 1..Len(last.sshConfigs) :
      \A field \in StringFields :
        LET w == last.wildcardHosts[n]
            h == last.sshConfigs[k]
        IN (matchWildcardHost(w, h) /\ h[field] = <<>> /\ w[field] # <<>>) =>
             ret.hosts[k][field] # <<>>

(***************************************************************************)
(* C6: after a successful parse no record has Port 0: a record whose Port  *)
(* is unset after the merges has Port 22, and so has a block without a     *)
(* Port line that no Port-setting wildcard block matches.                  *)
(***************************************************************************)
C6_DefaultPort ==
  Succeeded =>
    /\ \A k \in 1..Len(ret.hosts) : ret.hosts[k].Port # 0
    /\ \A k \in 1..Len(last.sshConfigs) :
         (last.sshConfigs[k].Port = 0
            /\ \A n \in 1..Len(last.wildcardHosts) : last.wildcardHosts[n].Port = 0)
           => ret.hosts[k].Port = DefaultPort
    /\ \A k \in 1..Len(LiteralPositions(TopText)) :
         LET i == LiteralPositions(TopText)[k]
         IN (OwnLines(TopText, i, "Port") = {}
               /\ FillingWildcards(TopText, i, "Port") = <<>>)
              => ret.hosts[k].Port = DefaultPort

(***************************************************************************)
(* C7: no record returned by a successful parse has a pattern that         *)
(* contains "*".                                                           *)
(***************************************************************************)
C7_NoWildcardReturned ==
  Succeeded =>
    \A i \in 1..Len(ret.hosts) : \A k \in 1..Len(ret.hosts[i].Host) :
      ~Contains(ret.hosts[i].Host[k], "*")

\* C7, witness: a successful parse of a block that mixes a literal and a
\* "*" pattern, with a wildcard block in an included file, returns a record
C7_Witness ==
  /\ Succeeded
  /\ Len(ret.hosts) > 0
  /\ \E i \in HostPositions(TopText) : TopText[i].val = <<"b", " ", "*">>
  /\ \E p \in DiskFiles : WildcardHostLines(fs[p]) # <<>>

(***************************************************************************)
(* C8: for a text without Include a successful parse returns one record    *)
(* for each Host line without a "*", in the order of the text, also for a  *)
(* block without any directive.                                            *)
(***************************************************************************)
C8_OneRecordPerLiteralBlock ==
  Succeeded =>
    /\ Len(ret.hosts) = Len(LiteralHostLines(TopText))
    /\ \A k \in 1..Len(ret.hosts) :
         ret.hosts[k].Host = Words(LiteralHostLines(TopText)[k].val)

\* C8, witness: two literal blocks under different names, the first without
\* a directive and a wildcard block between them
C8_Witness ==
  /\ Succeeded
  /\ Len(ret.hosts) > 1
  /\ ret.hosts[1].Host # ret.hosts[2].Host
  /\ \E n \in 1..Len(WildcardPositions(TopText)) :
       /\ LiteralPositions(TopText)[1] + 1 = WildcardPositions(TopText)[n]
       /\ WildcardPositions(TopText)[n] < LiteralPositions(TopText)[2]

(***************************************************************************)
(* C9: the patterns of a record are the names on its Host line, in order   *)
(* and with duplicates: the list is never empty and holds no empty string, *)
(* also when the line ends with white space.                               *)
(***************************************************************************)
C9_PatternsAreTheNames ==
  Succeeded =>
    /\ \A k \in 1..Len(last.sshConfigs) :
         LET h == last.sshConfigs[k].Host
         IN /\ h = Words(TopText[LiteralPositions(TopText)[k]].val)
            /\ Len(h) > 0
            /\ \A n \in 1..Len(h) : h[n] # <<>>
    /\ \A k \in 1..Len(last.wildcardHosts) :
         LET h == last.wildcardHosts[k].Host
         IN /\ h = Words(TopText[WildcardPositions(TopText)[k]].val)
            /\ Len(h) > 0
            /\ \A n \in 1..Len(h) : h[n] # <<>>

(***************************************************************************)
(* C10: an Include token that arrives while a host record is open in the   *)
(* file being parsed makes the parse fail with the include error, and no   *)
(* file is read.                                                           *)
(***************************************************************************)
C10_IncludeInHostBlockFails ==
  [][IncludeInHostBlock =>
       /\ pc' = "done"
       /\ ret' = [hosts |-> <<>>, err |-> IncludeError]
       /\ reads' = reads]_vars

\* C10, witness: the include error, in a file that first included another
\* one and then opened a block
C10_Witness ==
  /\ Failed
  /\ ret.err = IncludeError
  /\ reads # <<>>
  /\ TopText[Len(TopText)].kw = "Include"

\* this step reads a line of a keyword other than Host and Include in a
\* file in which no host record is open
DirectiveBeforeHost ==
  /\ AtLoop
  /\ Top.sshHost = <<>>
  /\ Top.pos = Len(fs[Top.path])
  /\ Len(fs'[Top.path]) = Len(fs[Top.path]) + 1
  /\ fs'[Top.path][Len(fs'[Top.path])].kw \notin {"Host", "Include", "!"}

(***************************************************************************)
(* C11: a directive other than Host and Include that arrives while no host *)
(* record is open makes the parse fail with an error that holds the path   *)
(* of the file being parsed and the position of the directive's token.     *)
(***************************************************************************)
C11_DirectiveBeforeHostFails ==
  [][DirectiveBeforeHost =>
       /\ pc' = "done"
       /\ ret' = [hosts |-> <<>>,
                  err |-> <<"config variable before Host variable", Top.path, Top.pos>>]]_vars

\* C11, witness: the error names an included file
C11_Witness ==
  /\ Failed
  /\ Len(ret.err) = 3
  /\ ret.err[1] = "config variable before Host variable"
  /\ ret.err[2] \in DiskFiles

\* this step reads a line of a keyword other than Host whose value token is
\* not a plain value, in a file where the keyword is allowed
FaultyValueRead ==
  /\ AtLoop
  /\ Top.pos = Len(fs[Top.path])
  /\ Len(fs'[Top.path]) = Len(fs[Top.path]) + 1
  /\ LET ln == fs'[Top.path][Len(fs'[Top.path])]
     IN /\ ln.kw \in ValueKeywords
        /\ ln.bad
        /\ (ln.kw = "Include") = (Top.sshHost = <<>>)

(***************************************************************************)
(* C12: for every keyword other than Host, forwards and Include included,  *)
(* the token read for its value, when it is not a plain value, makes the   *)
(* parse fail at once with that token's own value as the message.          *)
(***************************************************************************)
C12_FaultyValueIsTheError ==
  [][FaultyValueRead =>
       /\ pc' = "done"
       /\ ret' = [hosts |-> <<>>,
                  err |-> lexValue(fs'[Top.path][Len(fs'[Top.path])]).val]]_vars

(***************************************************************************)
(* Forward values read independently of the expressions of NewForward and  *)
(* NewDynamicForward: the ways to cut the whole text into its components.  *)
(***************************************************************************)
\* s[a..b] is a non-empty run of digits, of non-space characters, of spaces
DigitRun(s, a, b) == a <= b /\ \A k \in a..b : IsDigit(s[k])

NameRun(s, a, b) == a <= b /\ \A k \in a..b : s[k] \notin {" ", "\t"}

SpaceRun(s, a, b) == a <= b /\ \A k \in a..b : s[k] \in {" ", "\t"}

\* the cuts <<a, b>> of the whole of t into [bindhost:]port: the bind host is
\* t[1..a-1] with t[a] = ":" (none when a = 0), the port t[a+1..b], b = Len(t)
DynamicCuts(t) ==
  {c \in (0..Len(t)) \X {Len(t)} :
     /\ c[1] = 0 \/ (t[c[1]] = ":" /\ NameRun(t, 1, c[1] - 1))
     /\ DigitRun(t, c[1] + 1, c[2])}

\* the cuts <<a, b, c, d>> of the whole of t into [bindhost:]port SP
\* host:hostport: the in-port is t[a+1..b], the spaces t[b+1..c], the host
\* t[c+1..d-1], t[d] = ":" and the out-port t[d+1..Len(t)]
ForwardCuts(t) ==
  {c \in (0..Len(t)) \X (1..Len(t)) \X (1..Len(t)) \X (1..Len(t)) :
     /\ c[1] = 0 \/ (t[c[1]] = ":" /\ NameRun(t, 1, c[1] - 1))
     /\ DigitRun(t, c[1] + 1, c[2])
     /\ SpaceRun(t, c[2] + 1, c[3])
     /\ NameRun(t, c[3] + 1, c[4] - 1)
     /\ t[c[4]] = ":"
     /\ DigitRun(t, c[4] + 1, Len(t))}

\* the forward a cut stands for
ForwardOf(t, c) ==
  [InHost |-> SubSeq(t, 1, c[1] - 1),
   InPort |-> DigitsValue(SubSeq(t, c[1] + 1, c[2])),
   OutHost |-> SubSeq(t, c[3] + 1, c[4] - 1),
   OutPort |-> DigitsValue(SubSeq(t, c[4] + 1, Len(t)))]

DynamicForwardOf(t, c) ==
  [Host |-> SubSeq(t, 1, c[1] - 1),
   Port |-> DigitsValue(SubSeq(t, c[1] + 1, c[2]))]

\* the last line of the top-level text is a line of the keyword inside the
\* block of the file, and it is the line read last
LastLineIs(kws) ==
  /\ Len(TopText) > 1
  /\ TopText[1].kw = "Host"
  /\ TopText[Len(TopText)].kw \in kws
  /\ TopText[Len(TopText)].val \notin NumberTexts
  /\ pc = "run" => (Top.pos = Len(TopText) /\ ~Top.mid)

LastText == TopText[Len(TopText)].val

\* the list the last line added to, in the open record or in the record
\* returned
LastList(field) ==
  IF pc = "run" THEN Top.sshHost[1][field] ELSE ret.hosts[1][field]

ForwardField(kw) == IF kw = "LocalForward" THEN "LocalForwards" ELSE "RemoteForwards"

(***************************************************************************)
(* C13: NewForward succeeds exactly on the values whose whole text is      *)
(* [bindhost:]port SP host:hostport and then returns these components;     *)
(* every other value, also one that holds such a form among other text,    *)
(* fails with the message Invalid forward and the text.                    *)
(***************************************************************************)
C13_ForwardIsWholeText ==
  LastLineIs({"LocalForward", "RemoteForward"}) =>
    IF ForwardCuts(LastText) = {}
    THEN Failed /\ ret.err = <<"Invalid forward", LastText>>
    ELSE /\ ret.err = NoError
         /\ LET l == LastList(ForwardField(TopText[Len(TopText)].kw))
            IN /\ l # <<>>
               /\ \E c \in ForwardCuts(LastText) : l[Len(l)] = ForwardOf(LastText, c)

(***************************************************************************)
(* C14: NewDynamicForward succeeds exactly on the values whose whole text  *)
(* is [bindhost:]port and then returns the host (empty without a bind      *)
(* host) and the port; every other value, also one with other text before  *)
(* or after the port, fails with Invalid dynamic forward and the text.     *)
(***************************************************************************)
C14_DynamicForwardIsWholeText ==
  LastLineIs({"DynamicForward"}) =>
    IF DynamicCuts(LastText) = {}
    THEN Failed /\ ret.err = <<"Invalid dynamic forward", LastText>>
    ELSE /\ ret.err = NoError
         /\ LET l == LastList("DynamicForwards")
            IN /\ l # <<>>
               /\ \E c \in DynamicCuts(LastText) :
                    l[Len(l)] = DynamicForwardOf(LastText, c)

\* the values with a number beyond the range of int, the keywords they are
\* values of, and the literal that is out of range
OverflowCases ==
  {[kws |-> {"Port", "DynamicForward"}, text |-> BigText],
   [kws |-> {"DynamicForward"}, text |-> <<"h", ":">> \o BigText],
   [kws |-> {"LocalForward", "RemoteForward"},
    text |-> BigText \o <<" ", "h", ":", "1">>],
   [kws |-> {"LocalForward", "RemoteForward"},
    text |-> <<"1", " ", "h", ":">> \o BigText]}

(***************************************************************************)
(* C15: a Port value, or a port of a LocalForward, RemoteForward or        *)
(* DynamicForward value, whose digits exceed the range of int makes the    *)
(* parse fail with the conversion error for that literal; no port number   *)
(* is made of it.                                                          *)
(***************************************************************************)
C15_OverflowIsAnError ==
  \A c \in OverflowCases : \A i \in 2..Len(TopText) :
    (TopText[1].kw = "Host" /\ TopText[i].kw \in c.kws /\ TopText[i].val = c.text) =>
      /\ Failed
      /\ ret = [hosts |-> <<>>,
                err |-> <<"strconv.Atoi: value out of range", BigText>>]

\* C15, witness: the out-port of a RemoteForward value is out of range
C15_Witness ==
  /\ Failed
  /\ Len(TopText) = 2
  /\ TopText[1].kw = "Host"
  /\ TopText[2] = [kw |-> "RemoteForward", bad |-> FALSE, at |-> 1,
                   val |-> <<"1", " ", "h", ":">> \o BigText]

\* this step reads an Include line with a plain value in a file in which no
\* host record is open
IncludeRead ==
  /\ AtLoop
  /\ Top.sshHost = <<>>
  /\ Top.pos = Len(fs[Top.path])
  /\ Len(fs'[Top.path]) = Len(fs[Top.path]) + 1
  /\ fs'[Top.path][Len(fs'[Top.path])].kw = "Include"
  /\ ~fs'[Top.path][Len(fs'[Top.path])].bad

\* the path the Include line read in this step resolves to
IncludeResolved ==
  parseIncludePath(Top.path, fs'[Top.path][Len(fs'[Top.path])].val)

(***************************************************************************)
(* C16: when the resolved path of an Include matches no file, the parse    *)
(* fails with the error "no files found for include path" and the resolved *)
(* path, and returns no record.                                            *)
(***************************************************************************)
C16_NoFilesIsAnError ==
  [][(IncludeRead /\ \A p \in DiskFiles : ~GlobHere(IncludeResolved, 1, p, 1)) =>
       /\ pc' = "done"
       /\ ret' = [hosts |-> <<>>,
                  err |-> <<"no files found for include path", IncludeResolved>>]]_vars

\* C16, witness: the error, after an earlier Include gave a record
C16_Witness ==
  /\ Failed
  /\ Len(ret.err) = 2
  /\ ret.err[1] = "no files found for include path"
  /\ \E p \in closed : LiteralHostLines(fs[p]) # <<>>

\* the directory part of a path: the text before its last "/", "" without one
Before(path) ==
  IF \A k \in 1..Len(path) : path[k] # "/" THEN <<>>
  ELSE SubSeq(path, 1, CHOOSE k \in 1..Len(path) :
                         path[k] = "/" /\ \A j \in (k + 1)..Len(path) : path[j] # "/")

\* the path an Include value stands for in the file base
Resolved(base, value) ==
  IF value[1] = "~" THEN HomeDir \o Tail(value)
  ELSE IF value[1] = "/" THEN value
  ELSE Before(base) \o value

\* the file is one the path names, a "*" of the path standing for one
\* character of a name
PathFits(path, file) ==
  /\ Len(path) = Len(file)
  /\ \A k \in 1..Len(path) :
       path[k] = file[k] \/ (path[k] = "*" /\ file[k] # "/")

(***************************************************************************)
(* C17: an Include value that starts with "~" is resolved below the home   *)
(* directory, one that starts with "/" is used as it is, any other is      *)
(* joined to the directory of the file being parsed, in an included file   *)
(* to that file's own directory; the files parsed are the files of the     *)
(* resolved path.                                                          *)
(***************************************************************************)
C17_IncludePathResolved ==
  [][(IncludeRead /\ pc' = "run") =>
       LET value == fs'[Top.path][Len(fs'[Top.path])].val
           files == stack'[Len(stack')].files
       IN /\ files # <<>>
          /\ \A k \in 1..Len(files) : PathFits(Resolved(Top.path, value), files[k])]_vars

\* C17, witness: a file below the top-level directory included a file by a
\* relative path, and a file was included from the home directory
C17_Witness ==
  /\ \E i \in 1..Len(reads) : \E j \in 1..Len(reads) :
       /\ i < j
       /\ reads[i].path = <<"d", "/", "a">>
       /\ reads[j].path = <<"d", "/", "b">>
       /\ \E k \in 1..Len(fs[reads[i].path]) :
            fs[reads[i].path][k] =
              [kw |-> "Include", val |-> <<"b">>, bad |-> FALSE, at |-> k - 1]
  /\ \E i \in 1..Len(reads) : reads[i].path = <<"/", "h", "/", "b">>
  /\ \E k \in 1..Len(TopText) : TopText[k].val = <<"~", "/", "b">>

RECURSIVE IncludedNames(_, _), FileNames(_), NamesOfFiles(_)
\* the names of the records of the files that the Include lines of the file
\* from line i on name, in the order of the lines and of the files found
IncludedNames(p, i) ==
  IF i > Len(fs[p]) THEN <<>>
  ELSE (IF fs[p][i].kw = "Include"
        THEN NamesOfFiles(Glob(parseIncludePath(p, fs[p][i].val)))
        ELSE <<>>) \o IncludedNames(p, i + 1)

\* the names of the records of a file: those of the files it includes, then
\* those of its own blocks without a "*"
FileNames(p) ==
  IncludedNames(p, 1)
    \o [k \in 1..Len(LiteralHostLines(fs[p])) |-> Words(LiteralHostLines(fs[p])[k].val)]

NamesOfFiles(files) ==
  IF files = <<>> THEN <<>> ELSE FileNames(Head(files)) \o NamesOfFiles(Tail(files))

(***************************************************************************)
(* C18: the records of included files come in the order of the Include     *)
(* lines and, for one Include, in the order of the files found, each file  *)
(* giving its records in its own order, and all of them come before the    *)
(* records of the blocks of the including file.                            *)
(***************************************************************************)
C18_IncludedRecordsInOrder ==
  Succeeded => [k \in 1..Len(ret.hosts) |-> ret.hosts[k].Host] = FileNames(TopPath)

\* C18, witness: one Include found two files with a block each, and the
\* top-level file has a block of its own
C18_Witness ==
  /\ Succeeded
  /\ Len(ret.hosts) = 3
  /\ Len(reads) = 2
  /\ TopText[1].val = <<"*">>
  /\ reads[1].path # reads[2].path
  /\ \A i \in 1..2 : \A j \in 1..3 : i < j => ret.hosts[i].Host # ret.hosts[j].Host

(***************************************************************************)
(* C19: ParseFS reads every file reached through an Include with the file  *)
(* system it was given, never with the file system of the machine.         *)
(***************************************************************************)
C19_ParseFSReadsItsFS ==
  inputs.entry = "ParseFS" =>
    \A i \in 1..Len(reads) : reads[i].by = "fs.ReadFile"

ListFields == {"LocalForwards", "RemoteForwards", "DynamicForwards", "Ciphers", "MACs"}

(***************************************************************************)
(* C20: on a wildcard match a list-valued field that is empty on the       *)
(* literal record receives the entries of the wildcard record, and a       *)
(* list-valued field that the literal block set itself is returned as it   *)
(* is.                                                                     *)
(***************************************************************************)
C20_EmptyListFilled ==
  Succeeded =>
    \A k \in 1..Len(last.sshConfigs) : \A field \in ListFields :
      LET h == last.sshConfigs[k]
          ws == SelectSeq(last.wildcardHosts,
                          LAMBDA w : StarMatches(w.Host, h.Host) /\ w[field] # <<>>)
      IN IF h[field] # <<>> THEN ret.hosts[k][field] = h[field]
         ELSE ws # <<>> => ret.hosts[k][field] = ws[1][field]

RECURSIVE JoinComma(_)
\* the elements of a list with a comma between them
JoinComma(l) ==
  IF l = <<>> THEN <<>>
  ELSE IF Len(l) = 1 THEN l[1]
  ELSE l[1] \o <<",">> \o JoinComma(Tail(l))

(***************************************************************************)
(* C21: for a block that holds every directive of the specification once   *)
(* (HostName, User, Port, ProxyCommand, HostKeyAlgorithms, IdentityFile,    *)
(* IdentityAgent, ProxyJump, Ciphers, MACs) each field of the returned     *)
(* record is the value of its line, Ciphers, MACs and ProxyJump as lists   *)
(* whose elements joined by commas give the value.                         *)
(***************************************************************************)
C21_RoundTrip ==
  (Succeeded /\ Len(TopText) = Len(RoundKeywords) + 1) =>
    \A i \in 2..Len(TopText) :
      LET kw == TopText[i].kw
          r == ret.hosts[1]
      IN /\ kw \in DOMAIN r
         /\ IF kw = "Port" THEN r[kw] >= 0 /\ NatText(r[kw]) = TopText[i].val
            ELSE IF kw \in {"Ciphers", "MACs", "ProxyJump"}
            THEN JoinComma(r[kw]) = TopText[i].val
            ELSE r[kw] = TopText[i].val

\* the positions of a set of lines in increasing order
InOrder(lines, js) == SelectSeq([j \in 1..Len(lines) |-> j], LAMBDA j : j \in js)

\* the forwards that the lines of the keyword in the block at i stand for,
\* in the order of the lines
BlockForwards(lines, i, kw) ==
  LET js == InOrder(lines, OwnLines(lines, i, kw))
  IN [n \in 1..Len(js) |->
        LET t == lines[js[n]].val
        IN IF kw = "DynamicForward"
           THEN DynamicForwardOf(t, CHOOSE c \in DynamicCuts(t) : TRUE)
           ELSE ForwardOf(t, CHOOSE c \in ForwardCuts(t) : TRUE)]

\* the record has, in each of its three forward lists, the forwards of the
\* block at i
HasBlockForwards(r, lines, i) ==
  /\ r.LocalForwards = BlockForwards(lines, i, "LocalForward")
  /\ r.RemoteForwards = BlockForwards(lines, i, "RemoteForward")
  /\ r.DynamicForwards = BlockForwards(lines, i, "DynamicForward")

\* the records of the top-level file's own literal blocks follow those of
\* the files it includes
OwnOffset == Len(ret.hosts) - Len(LiteralPositions(TopText))

(***************************************************************************)
(* C22: every LocalForward, RemoteForward and DynamicForward line adds     *)
(* exactly one entry to its list of the record of the block it stands in,  *)
(* in the order of the lines; the lists of a record hold nothing from the  *)
(* lines of other blocks.                                                  *)
(***************************************************************************)
C22_ForwardsInLineOrder ==
  Succeeded =>
    /\ \A k \in 1..Len(LiteralPositions(TopText)) :
         HasBlockForwards(ret.hosts[OwnOffset + k], TopText, LiteralPositions(TopText)[k])
    /\ \A k \in 1..Len(WildcardPositions(TopText)) :
         HasBlockForwards(last.wildcardHosts[k], TopText, WildcardPositions(TopText)[k])

C22_Witness ==
  /\ Succeeded
  /\ \E k \in 1..Len(ret.hosts) :
       /\ Len(ret.hosts[k].LocalForwards) = 2
       /\ ret.hosts[k].LocalForwards[1] # ret.hosts[k].LocalForwards[2]

\* the keywords of the lines the lexer passes over: blank, comment, a
\* directive it does not know
Skipped == {"", "#", "unknown"}

\* the text with those lines removed, every line left at the position it
\* then has
Strip(lines) ==
  LET s == SelectSeq(lines, LAMBDA ln : ln.kw \notin Skipped)
  IN [i \in 1..Len(s) |-> [s[i] EXCEPT !.at = i - 1]]

RECURSIVE ResultFrom(_, _)
\* what parse returns for a text of Host, HostName, User and Port lines,
\* lexer faults and lines passed over, when its locals are f and it has
\* read f.pos lines
ResultFrom(f, lines) ==
  IF f.pos = Len(lines) THEN [hosts |-> Finish(Finalize(f)), err |-> NoError]
  ELSE LET ln == lines[f.pos + 1]
           typ == IF ln.kw = "!" THEN "itemError" ELSE "item" \o ln.kw
           pre == PreCheck(f, typ, ln.at)
           next == lexValue(ln)
           port == Atoi(next.val)
       IN IF ln.kw \in Skipped THEN ResultFrom([f EXCEPT !.pos = @ + 1], lines)
          ELSE IF ln.kw = "Host"
          THEN ResultFrom([Finalize(f) EXCEPT
                             !.sshHost = <<[NewSSHHost EXCEPT
                                              !.Host = Split(lexHostValue(ln).val, " ")]>>,
                             !.pos = @ + 1], lines)
          ELSE IF pre # NoError THEN ErrorReturn(f.sshConfigs, pre)
          ELSE IF ln.kw = "!"
          THEN ErrorReturn(f.sshConfigs, ln.val \o <<"at pos", ln.at>>)
          ELSE IF next.typ # "itemValue" THEN ErrorReturn(f.sshConfigs, next.val)
          ELSE IF ln.kw = "Port" /\ ~port.ok THEN ErrorReturn(f.sshConfigs, port.err)
          ELSE ResultFrom([f EXCEPT
                             !.sshHost = <<[@[1] EXCEPT
                                              ![ln.kw] = IF ln.kw = "Port" THEN port.val
                                                         ELSE next.val]>>,
                             !.pos = @ + 1], lines)

\* what Parse returns for a top-level file of these lines
ResultOf(lines) == ResultFrom(NewFrame(TopPath), lines)

\* an error without the position it names
NoPos(err) ==
  IF err = NoError THEN err
  ELSE IF err[1] = "config variable before Host variable" THEN <<err[1], err[2]>>
  ELSE IF Len(err) >= 2 /\ err[Len(err) - 1] = "at pos" THEN SubSeq(err, 1, Len(err) - 2)
  ELSE err

LFText == LexText(Styled(inputs.text, LF))

ErrorTokenRead ==
  /\ AtLoop
  /\ Top.pos = Len(fs[Top.path])
  /\ Len(fs'[Top.path]) = Len(fs[Top.path]) + 1
  /\ fs'[Top.path][Len(fs'[Top.path])].kw = "!"

\* the message of the error token of the line read last
LexerMessage ==
  LET ln == fs'[Top.path][Len(fs'[Top.path])]
  IN IF ln.kw = "!" THEN ln.val ELSE lexValue(ln).val

\* the error holds the message: it is the message, it starts with it, or it
\* quotes it as the text of a forward
Carries(err, msg) ==
  /\ err # NoError
  /\ IF err[1] \in {"Invalid forward", "Invalid dynamic forward"} THEN err[2] = msg
     ELSE Len(err) >= Len(msg) /\ SubSeq(err, 1, Len(msg)) = msg

(***************************************************************************)
(* C25: whenever the lexer gives an error token, before the first Host, at *)
(* keyword position inside a block or where a value is expected, the parse *)
(* fails and the error returned holds the lexer's message; for a value not *)
(* ended by a newline the error is exactly that message.                   *)
(***************************************************************************)
C25_LexerMessageReturned ==
  [][(ErrorTokenRead \/ FaultyValueRead) =>
       /\ pc' = "done"
       /\ ret'.hosts = <<>>
       /\ Carries(ret'.err, LexerMessage)
       /\ FaultyValueRead => ret'.err = LexerMessage]_vars

RECURSIVE IncludedBlocks(_, _), FileBlocks(_), BlocksOfFiles(_)
\* the blocks that give the records of a file, as IncludedNames gives their
\* names: the file and the position of the Host line
IncludedBlocks(p, i) ==
  IF i > Len(fs[p]) THEN <<>>
  ELSE (IF fs[p][i].kw = "Include"
        THEN BlocksOfFiles(Glob(parseIncludePath(p, fs[p][i].val)))
        ELSE <<>>) \o IncludedBlocks(p, i + 1)

FileBlocks(p) ==
  IncludedBlocks(p, 1)
    \o [k \in 1..Len(LiteralPositions(fs[p])) |->
          [path |-> p, line |-> LiteralPositions(fs[p])[k]]]

BlocksOfFiles(files) ==
  IF files = <<>> THEN <<>> ELSE FileBlocks(Head(files)) \o BlocksOfFiles(Tail(files))

\* the Port values that the wildcard blocks of the top-level file which
\* match the names give
PortsFor(names) ==
  {OwnValue(TopText, WildcardPositions(TopText)[n], "Port") :
     n \in {m \in 1..Len(WildcardPositions(TopText)) :
              /\ SetsField(TopText, WildcardPositions(TopText)[m], "Port")
              /\ StarMatches(Words(TopText[WildcardPositions(TopText)[m]].val), names)}}

\* the k-th record returned comes of a block of an included file that has
\* no Port line, in a file none of whose wildcard blocks sets a Port
IncludedWithoutPort(k) ==
  LET b == FileBlocks(TopPath)[k]
  IN /\ b.path # TopPath
     /\ OwnLines(fs[b.path], b.line, "Port") = {}
     /\ \A n \in 1..Len(WildcardPositions(fs[b.path])) :
          ~SetsField(fs[b.path], WildcardPositions(fs[b.path])[n], "Port")

(***************************************************************************)
(* C26: the default port is applied only after every wildcard merge: a     *)
(* record of a block without a Port line in an included file, matched by a *)
(* wildcard block of the including file that sets Port p, is returned with *)
(* Port p and not with 22.                                                 *)
(***************************************************************************)
C26_DefaultPortAfterEveryMerge ==
  Succeeded =>
    \A k \in 1..Len(ret.hosts) :
      (IncludedWithoutPort(k) /\ PortsFor(ret.hosts[k].Host) # {}) =>
        ret.hosts[k].Port \in PortsFor(ret.hosts[k].Host)

\* the fault of the value of a line, none when the value is good
ValueFault(ln) ==
  IF ln.kw \in {"LocalForward", "RemoteForward"}
  THEN IF ForwardCuts(ln.val) = {} THEN <<"Invalid forward", ln.val>> ELSE NoError
  ELSE IF ln.kw = "DynamicForward"
  THEN IF DynamicCuts(ln.val) = {} THEN <<"Invalid dynamic forward", ln.val>> ELSE NoError
  ELSE IF ln.bad THEN <<"expected \\n">>
  ELSE IF ln.kw = "Port" /\ ~DigitRun(ln.val, 1, Len(ln.val))
  THEN <<"strconv.Atoi: invalid syntax", ln.val>>
  ELSE NoError

RECURSIVE FaultFrom(_, _, _), LineFault(_, _, _), FaultOfFiles(_)
\* the fault met first in the file p from its line i on, when a host block
\* is open or not: none when there is none
FaultFrom(p, i, open) ==
  IF i > Len(fs[p]) THEN NoError
  ELSE IF LineFault(p, fs[p][i], open) # NoError THEN LineFault(p, fs[p][i], open)
  ELSE FaultFrom(p, i + 1, open \/ fs[p][i].kw = "Host")

\* the fault of one line; that of an Include is the fault met first in the
\* files it names, taken whole and in their order
LineFault(p, ln, open) ==
  IF ln.kw = "Host" THEN NoError
  ELSE IF ln.kw = "Include"
  THEN IF open THEN IncludeError
       ELSE IF ValueFault(ln) # NoError THEN ValueFault(ln)
       ELSE IF Glob(parseIncludePath(p, ln.val)) = <<>>
       THEN <<"no files found for include path", parseIncludePath(p, ln.val)>>
       ELSE FaultOfFiles(Glob(parseIncludePath(p, ln.val)))
  ELSE IF ~open THEN <<"config variable before Host variable", p, ln.at>>
  ELSE IF ln.kw = "!" THEN ln.val \o <<"at pos", ln.at>>
  ELSE ValueFault(ln)

FaultOfFiles(files) ==
  IF files = <<>> THEN NoError
  ELSE IF FaultFrom(Head(files), 1, FALSE) # NoError THEN FaultFrom(Head(files), 1, FALSE)
  ELSE FaultOfFiles(Tail(files))

(***************************************************************************)
(* C27: when an input with its included files holds several faults, the    *)
(* error returned is that of the fault met first when the lines are taken  *)
(* in order, the files of an Include whole and in their order at the place *)
(* of the Include; no later fault takes its place.                         *)
(***************************************************************************)
C27_FirstFaultReturned ==
  Done =>
    /\ ret.err = FaultFrom(TopPath, 1, FALSE)
    /\ ret.err # NoError => ret.hosts = <<>>

\* C27, witness: the fault of the first file of an Include is returned; the
\* second file and a later line of the including file have faults too
C27_Witness ==
  /\ Failed
  /\ ret.err = <<"config variable before Host variable", <<"a">>, 0>>
  /\ FaultFrom(<<"b">>, 1, FALSE) # NoError
  /\ Len(TopText) >= 2
  /\ TopText[1].val = <<"*">>
  /\ LineFault(TopPath, TopText[2], FALSE) # NoError

\* the files whose parse is under way, outermost first
Parsing == [i \in 1..Len(stack) |-> stack[i].path]

\* the call on top is at an Include line that it can follow no further in
\* the nesting the runs allow
AtNestingBound ==
  /\ AtLoop
  /\ Len(stack) = inputs.depth
  /\ Top.pos < Len(fs[Top.path])
  /\ fs[Top.path][Top.pos + 1].kw = "Include"

\* the parse of a file is under way inside the parse of the same file, or
\* the Include line names such a file: the text of a file does not change,
\* so the inner parse comes to the same Include again, without end
Reentered ==
  \/ \E i, j \in 1..Len(stack) : i < j /\ stack[i].path = stack[j].path
  \/ /\ AtNestingBound
     /\ \E k \in 1..Len(Glob(parseIncludePath(Top.path, fs[Top.path][Top.pos + 1].val))) :
          \E i \in 1..Len(stack) :
            stack[i].path = Glob(parseIncludePath(Top.path, fs[Top.path][Top.pos + 1].val))[k]

Merged == applyWildcardRules(last.wildcardHosts, last.sshConfigs)

(***************************************************************************)
(* C29: the wildcard merge changes nothing but unset fields of the literal *)
(* records that a wildcard record matches: the list keeps its records and  *)
(* their order, every record keeps its Host patterns, and a field that     *)
(* changes was unset, in a record one of whose names a pattern of a        *)
(* wildcard record matches as a whole, and holds that record's value.      *)
(***************************************************************************)
C29_MergeChangesUnsetFieldsOnly ==
  Succeeded =>
    /\ ret.hosts = assertDefaultPort(Merged)
    /\ Len(Merged) = Len(last.sshConfigs)
    /\ \A k \in 1..Len(Merged) :
         /\ Merged[k].Host = last.sshConfigs[k].Host
         /\ \A i \in 2..Len(FieldNames) :
              LET field == FieldNames[i]
              IN Merged[k][field] # last.sshConfigs[k][field] =>
                   /\ last.sshConfigs[k][field] = Unset(field)
                   /\ \E n \in 1..Len(last.wildcardHosts) :
                        /\ StarMatches(last.wildcardHosts[n].Host, last.sshConfigs[k].Host)
                        /\ Merged[k][field] = last.wildcardHosts[n][field]

\* the record is that of the block the Host line at i opens: its names, for
\* every scalar or comma-list directive the value of the last line of the
\* directive in the block, and nothing in any other field
HoldsBlock(r, lines, i) ==
  /\ r.Host = Words(lines[i].val)
  /\ \A field \in ScalarFields :
       r[field] = IF OwnLines(lines, i, field) = {} THEN NewSSHHost[field]
                  ELSE OwnValue(lines, i, field)
  /\ \A field \in {"Ciphers", "MACs"} :
       IF OwnLines(lines, i, field) = {} THEN r[field] = <<>>
       ELSE /\ JoinComma(r[field]) =
                 lines[CHOOSE x \in OwnLines(lines, i, field) :
                         \A y \in OwnLines(lines, i, field) : y <= x].val
            /\ \A n \in 1..Len(r[field]) : ~Contains(r[field][n], ",")
  /\ \A field \in {"LocalForwards", "RemoteForwards", "DynamicForwards"} : r[field] = <<>>

\* the records are those of the blocks at the positions, in order
HoldBlocks(rs, lines, ps) ==
  /\ Len(rs) = Len(ps)
  /\ \A k \in 1..Len(ps) : HoldsBlock(rs[k], lines, ps[k])

\* the position of the last Host line of a text, 0 when it has none
OpenPosition(lines) ==
  IF HostPositions(lines) = {} THEN 0
  ELSE CHOOSE i \in HostPositions(lines) : \A j \in HostPositions(lines) : j <= i

(***************************************************************************)
(* C30: within a block, when a scalar directive (HostName, User, Port,     *)
(* ProxyCommand, HostKeyAlgorithms, IdentityFile) or a comma-list          *)
(* directive (Ciphers, MACs) appears more than once the record holds the   *)
(* value of the last occurrence only, and a directive changes no field     *)
(* other than its own and no record other than the open one: after every   *)
(* line the open record and the records of the blocks before it are those  *)
(* of their own lines, and so are the records when the parse succeeds,     *)
(* where every value so set is also the one returned.                      *)
(***************************************************************************)
C30_LastOccurrenceWins ==
  /\ AtLoop =>
       /\ Top.pos = Len(TopText)
       /\ HoldBlocks(Top.sshConfigs, TopText,
                     SelectSeq(LiteralPositions(TopText),
                               LAMBDA i : i # OpenPosition(TopText)))
       /\ HoldBlocks(Top.wildcardHosts, TopText,
                     SelectSeq(WildcardPositions(TopText),
                               LAMBDA i : i # OpenPosition(TopText)))
       /\ HoldBlocks(Top.sshHost, TopText,
                     IF OpenPosition(TopText) = 0 THEN <<>> ELSE <<OpenPosition(TopText)>>)
  /\ Succeeded =>
       /\ HoldBlocks(last.sshConfigs, TopText, LiteralPositions(TopText))
       /\ HoldBlocks(last.wildcardHosts, TopText, WildcardPositions(TopText))
       /\ \A k \in 1..Len(ret.hosts) : \A i \in 2..Len(FieldNames) :
            last.sshConfigs[k][FieldNames[i]] # NewSSHHost[FieldNames[i]] =>
              ret.hosts[k][FieldNames[i]] = last.sshConfigs[k][FieldNames[i]]

\* C30, witness: a block with two lines of one directive and different
\* values, the record returned with the second
C30_Witness ==
  /\ Succeeded
  /\ Len(TopText) = 3
  /\ Len(ret.hosts) = 1
  /\ TopText[2].kw = TopText[3].kw
  /\ TopText[2].val # TopText[3].val
  /\ TopText[3].kw \in {"HostName", "Ciphers"}
  /\ ret.hosts[1][TopText[3].kw] # NewSSHHost[TopText[3].kw]

====
